---- MODULE Spec2Model ----
(***************************************************************************)
(* The Worker reconciler of juan-lee/carp: one reconcile pass converges    *)
(* six management-plane objects through controllerutil.CreateOrUpdate,     *)
(* bootstraps the remote cluster and then writes the worker's status.      *)
(* Every store operation (Get, Create, Update) is one step of a pass.      *)
(***************************************************************************)
EXTENDS Integers, Sequences, FiniteSets, TLC

\* ------------------------------------------------------------------ bounds
MaxPasses == 2      \* reconcile invocations started in one behaviour
MaxExternal == 1    \* changes made by actors other than the reconciler

\* ------------------------------------------------------------- vocabulary
Passes == {1, 2}            \* invocations that may be in flight
Sequential == {1}           \* the scheduler runs one pass per worker at a time
\* Names are sequences of parts, so that fmt.Sprintf("%s-x", name) is name \o <<"-x">>.
WorkerName == <<"alpha">>
WorkerNamespace == "default"
Capacities == {10, 20}
AzureSettings ==
    [environment |-> "AzurePublicCloud", tenant |-> "t", subscription |-> "s",
     clientId |-> "c", clientSecret |-> "x"]
AzureKey ==
    [name |-> <<"capz-manager-bootstrap-credentials">>, namespace |-> "capz-system"]
KubeconfigDataName == "value"
KubeconfigName(name) == name \o <<"-kubeconfig">>
CalicoURL == "https://raw.githubusercontent.com/juan-lee/cluster-api-provider-azure/hackathon/templates/addons/calico.yaml"

\* The reconcilers slice of Reconcile: six management-plane stages, then
\* reconcileExternal as the seventh.
Stages ==
    <<"Cluster", "KubeadmConfigTemplate", "KubeadmControlPlane",
      "AzureMachineTemplate", "MachineDeployment", "AzureCluster">>
NumStages == Len(Stages)
ExternalStage == NumStages + 1
StatusStep == ExternalStage + 1

\* ------------------------------------------------------------------ errors
\* An error is the chain of contexts added by fmt.Errorf and the API error
\* at its root; fmt.Errorf without %w starts a new chain with no cause.
NoErr == [ctx |-> <<>>, cause |-> "nil"]
ApiErr(reason) == [ctx |-> <<>>, cause |-> reason]
\* Mutant of Wrap: the cause formatted with %v, so that the chain ends here.
WrapNoCause(msg, e) == [ctx |-> <<msg>>, cause |-> "none"]
Wrap(msg, e) == [ctx |-> <<msg>> \o e.ctx, cause |-> e.cause]

\* Mutant of Errorf: the error is made with apierrors.NewNotFound.
ErrorfNotFound(msg) == [ctx |-> <<msg>>, cause |-> "NotFound"]

\* fmt.Errorf without %w: a message and no cause.
Errorf(msg) == [ctx |-> <<msg>>, cause |-> "none"]
IsNotFound(e) == e.cause = "NotFound"

\* Mutant of IgnoreNotFound: the error is returned as it is.
KeepNotFound(e) == e

\* client.IgnoreNotFound(err): nil for a not-found error, err otherwise.
IgnoreNotFound(e) == IF IsNotFound(e) THEN NoErr ELSE e

StageMsg ==
    <<"failed to create/update cluster",
      "failed to create/update kubeadm config template",
      "failed to create/update kubeadm control plane",
      "failed to create/update machine template",
      "failed to create/update machine deployment",
      "failed to create/update azure cluster">>
ReconcileMsg == "failed to execute reconcile function"

\* ------------------------------------------------------- template builders
\* The json tags of CloudProviderConfig, in declaration order.
CloudProviderConfigFields ==
    <<"cloud", "tenantId", "subscriptionId", "aadClientId", "aadClientSecret",
      "resourceGroup", "securityGroupName", "location", "vmType", "vnetName",
      "vnetResourceGroup", "subnetName", "routeTableName", "loadBalancerSku",
      "maximumLoadBalancerRuleCount", "useManagedIdentityExtension",
      "useInstanceMetadata">>

\* json.Marshal of a struct: its fields as key/value pairs in declaration order.
Marshal(config) ==
    [i \in 1..Len(CloudProviderConfigFields) |->
        <<CloudProviderConfigFields[i], config[CloudProviderConfigFields[i]]>>]

\* The settings map of a reconciler that was given none: every lookup yields "".
NoSettings ==
    [environment |-> "", tenant |-> "", subscription |-> "", clientId |-> "",
     clientSecret |-> ""]

getCloudProviderConfig(cluster, location, settings) ==
    Marshal(
    [cloud |-> settings.environment, tenantId |-> settings.tenant,
     subscriptionId |-> settings.subscription, aadClientId |-> settings.clientId,
     aadClientSecret |-> settings.clientSecret, resourceGroup |-> cluster,
     securityGroupName |-> cluster \o <<"-node-nsg">>, location |-> location,
     vmType |-> "standard", vnetName |-> cluster \o <<"-vnet">>,
     vnetResourceGroup |-> cluster, subnetName |-> cluster \o <<"-node-subnet">>,
     routeTableName |-> cluster \o <<"-node-routetable">>,
     loadBalancerSku |-> "standard", maximumLoadBalancerRuleCount |-> 250,
     useManagedIdentityExtension |-> FALSE, useInstanceMetadata |-> TRUE])

\* A freshly built object: no namespace yet, no owner, nothing set by the server.
Object(kind, name, spec) ==
    [kind |-> kind, namespace |-> "", name |-> name, owner |-> <<>>,
     uid |-> FALSE, spec |-> spec]

getCluster(cluster, location, settings) ==
    Object("Cluster", cluster,
           [pods |-> "192.168.0.0/16", controlPlaneRef |-> cluster,
            infrastructureRef |-> cluster])

getKubeadmConfigTemplate(cluster, location, settings) ==
    Object("KubeadmConfigTemplate", cluster,
           [files |-> getCloudProviderConfig(cluster, location, settings)])

\* Mutant of getKubeadmControlPlane: the payload is built from a nil settings map.
getKubeadmControlPlaneNilSettings(cluster, location, settings) ==
    Object("KubeadmControlPlane", cluster,
           [replicas |-> 1, version |-> "v1.17.4", infrastructureTemplate |-> cluster,
            files |-> getCloudProviderConfig(cluster, location, NoSettings)])

getKubeadmControlPlane(cluster, location, settings) ==
    Object("KubeadmControlPlane", cluster,
           [replicas |-> 1, version |-> "v1.17.4", infrastructureTemplate |-> cluster,
            files |-> getCloudProviderConfig(cluster, location, settings)])

\* Mutant of getMachineTemplate: the object named after its kind, not the worker.
getMachineTemplateSuffixed(cluster, location) ==
    Object("AzureMachineTemplate", cluster \o <<"-template">>,
           [location |-> location, vmSize |-> "Standard_D8s_v3"])

getMachineTemplate(cluster, location) ==
    Object("AzureMachineTemplate", cluster,
           [location |-> location, vmSize |-> "Standard_D8s_v3"])

\* Mutant of getMachineDeployment: one replica, whatever the worker asks for.
getMachineDeploymentSingle(wk) ==
    Object("MachineDeployment", wk.name,
           [clusterName |-> wk.name, replicas |-> 1,
            configRef |-> wk.name, infrastructureRef |-> wk.name,
            version |-> wk.spec.version])

getMachineDeployment(wk) ==
    Object("MachineDeployment", wk.name,
           [clusterName |-> wk.name, replicas |-> wk.spec.replicas,
            configRef |-> wk.name, infrastructureRef |-> wk.name,
            version |-> wk.spec.version])

\* Mutant of getAzureCluster: the object named like its vnet.
getAzureClusterVnetNamed(cluster, location) ==
    Object("AzureCluster", cluster \o <<"-vnet">>,
           [location |-> location, vnet |-> cluster \o <<"-vnet">>,
            resourceGroup |-> cluster])

getAzureCluster(cluster, location) ==
    Object("AzureCluster", cluster,
           [location |-> location, vnet |-> cluster \o <<"-vnet">>,
            resourceGroup |-> cluster])

\* What stage k's builder returns for a worker under the given settings,
\* with template.Namespace = worker.Namespace.
Desired(k, wk, settings) ==
    LET t == CASE k = 1 -> getCluster(wk.name, wk.spec.location, settings)
               [] k = 2 -> getKubeadmConfigTemplate(wk.name, wk.spec.location, settings)
               [] k = 3 -> getKubeadmControlPlane(wk.name, wk.spec.location, settings)
               [] k = 4 -> getMachineTemplate(wk.name, wk.spec.location)
               [] k = 5 -> getMachineDeployment(wk)
               [] OTHER -> getAzureCluster(wk.name, wk.spec.location)
    IN [t EXCEPT !.namespace = wk.namespace]

\* The template a stage builds: the reconciler's own settings.
Template(k, wk) == Desired(k, wk, AzureSettings)

SetControllerReference(owner, o) == [o EXCEPT !.owner = <<owner.name>>]

\* ---------------------------------------------------- mutation closures
\* Mutant of MutateTemplate: the closure copies want into the object
\* (*template = *want).
MutateTemplateInPlace(obj, want) == [template |-> want, obj |-> want]

\* The closure passed to CreateOrUpdate assigns the stage's own variable
\* (template = want); obj is the object CreateOrUpdate holds and persists.
MutateTemplate(obj, want) == [template |-> want, obj |-> obj]

\* reconcileAzureCluster's closure: the controller reference is set on want.
MutateAzureCluster(wk, obj, want) ==
    [template |-> SetControllerReference(wk, want), obj |-> obj]

\* Mutant of Mutated: CreateOrUpdate is handed want instead of the object it read.
MutatedToWant(k, wk, obj) == Template(k, wk)

\* What CreateOrUpdate holds after mutate(f, key, obj) in stage k.
Mutated(k, wk, obj) ==
    LET want == Template(k, wk)      \* want := template.DeepCopy()
    IN IF k = NumStages THEN MutateAzureCluster(wk, obj, want).obj
                        ELSE MutateTemplate(obj, want).obj

\* ------------------------------------------------------------------- state
VARIABLES
    worker,      \* the Worker object in the management-plane store
    store,       \* the management-plane objects of the six kinds
    secrets,     \* the management-plane secrets
    remote,      \* the objects of the remote cluster
    applied,     \* the manifests applied to the remote cluster
    pc,          \* per pass: the store operation it is about to make
    stage,       \* per pass: index into the reconcilers slice
    w,           \* per pass: the worker as fetched at the start of the pass
    cred,        \* per pass: azureSecret.Data as read by reconcileExternal
    stale,       \* per pass: the worker was written since the pass fetched it
    result,      \* per pass: the error Reconcile returned
    failedAt,    \* per pass: the stage whose error ended the pass, 0 if none
    log,         \* per pass: the store operations made, in order
    snap,        \* per pass: what the pass found when it started
    converged,   \* the last pass ran its six stages and nothing changed since
    prev,        \* outcome of the pass before the current one
    passes,      \* passes started
    ext,         \* external changes made
    input,       \* the worker and settings handed to the template builders
    built        \* the templates the builders returned for input

vars ==
    <<worker, store, secrets, remote, applied, pc, stage, w, cred, stale, result,
      failedAt, log, snap, converged, prev, passes, ext, input, built>>

buildVars == <<input, built>>

envVars == <<worker, store, secrets, remote, applied>>

\* The state a pass starts from.
Snapshot ==
    [store |-> store, status |-> worker.status, converged |-> converged, ext |-> ext]

\* ----------------------------------------------------------------- helpers
Lookup(objs, kind, namespace, name) ==
    {o \in objs : o.kind = kind /\ o.namespace = namespace /\ o.name = name}

LookupSecret(namespace, name) ==
    {s \in secrets : s.namespace = namespace /\ s.name = name}

\* What the API server stores for a created object.
Created(o) == [o EXCEPT !.uid = TRUE]

Entry(k, op, api) == [stage |-> k, op |-> op, api |-> api]
StatusNil == [phase |-> "", availableCapacity |-> <<>>, lastScheduledTime |-> <<>>]

NoWorker ==
    [name |-> <<>>, namespace |-> "",
     spec |-> [location |-> "", replicas |-> 0, capacity |-> 0, version |-> ""],
     status |-> StatusNil]

CredentialSecret(d) ==
    [namespace |-> AzureKey.namespace, name |-> AzureKey.name,
     data |-> [clientSecret |-> d]]

\* What "<worker-name>-kubeconfig" may hold: a kubeconfig under the well-known
\* key, something that is no kubeconfig, or no such key.
KubeconfigPayloads ==
    {[value |-> "kubeconfig"], [value |-> "garbage"], [other |-> "kubeconfig"]}

KubeconfigSecret(d) ==
    [namespace |-> WorkerNamespace, name |-> KubeconfigName(WorkerName), data |-> d]

Init ==
    /\ worker = [name |-> WorkerName, namespace |-> WorkerNamespace,
                 spec |-> [location |-> "westus2", replicas |-> 3,
                           capacity |-> 10, version |-> "v1.18.2"],
                 status |-> StatusNil]
    /\ store = {}
    /\ \E c \in SUBSET {CredentialSecret("d1")},
          k \in {{}} \cup {{KubeconfigSecret(d)} : d \in KubeconfigPayloads} :
         secrets = c \cup k
    /\ remote = {}
    /\ applied = {}
    /\ pc = [p \in Passes |-> "idle"]
    /\ stage = [p \in Passes |-> 0]
    /\ w = [p \in Passes |-> NoWorker]
    /\ cred = [p \in Passes |-> <<>>]
    /\ stale = [p \in Passes |-> FALSE]
    /\ result = [p \in Passes |-> NoErr]
    /\ failedAt = [p \in Passes |-> 0]
    /\ log = [p \in Passes |-> <<>>]
    /\ snap = [p \in Passes |->
                [store |-> {}, status |-> StatusNil, converged |-> FALSE, ext |-> 0]]
    /\ converged = FALSE
    /\ prev = [ran |-> FALSE, failedAt |-> 0, startEmpty |-> FALSE]
    /\ passes = 0
    /\ ext = 0
    /\ input = [worker |-> worker, settings |-> AzureSettings]
    /\ built = {}

\* ---------------------------------------------------------- Reconcile
Logged(p, entries) == log' = [log EXCEPT ![p] = @ \o entries]

\* Mutant of Return: the error is kept and the loop goes on to the next stage.
ReturnCollecting(p, k, err) ==
    /\ result' = [result EXCEPT ![p] = Wrap(ReconcileMsg, err)]
    /\ failedAt' = [failedAt EXCEPT ![p] = k]
    /\ stage' = [stage EXCEPT ![p] = k + 1]
    /\ pc' = [pc EXCEPT ![p] =
                 IF k < NumStages THEN "get"
                 ELSE IF k = NumStages THEN "cred" ELSE "status"]
    /\ UNCHANGED converged

\* Mutant of Return: the loop is left with break, so the status code runs.
ReturnBreaking(p, k, err) ==
    /\ result' = [result EXCEPT ![p] = Wrap(ReconcileMsg, err)]
    /\ failedAt' = [failedAt EXCEPT ![p] = k]
    /\ pc' = [pc EXCEPT ![p] = "status"]
    /\ UNCHANGED <<stage, converged>>

\* Reconcile returns the error err of stage k, wrapped.
\* Mutant of Return: the loop ends at the failing stage and nil is returned.
ReturnNil(p, k, err) ==
    /\ pc' = [pc EXCEPT ![p] = "idle"]
    /\ result' = [result EXCEPT ![p] = NoErr]
    /\ failedAt' = [failedAt EXCEPT ![p] = 0]
    /\ UNCHANGED <<stage, converged>>

Return(p, k, err) ==
    /\ pc' = [pc EXCEPT ![p] = "idle"]
    /\ result' = [result EXCEPT ![p] = Wrap(ReconcileMsg, err)]
    /\ failedAt' = [failedAt EXCEPT ![p] = k]
    /\ UNCHANGED <<stage, converged>>

\* The for loop of Reconcile after stage k returned nil.
Continue(p, k) ==
    /\ stage' = [stage EXCEPT ![p] = k + 1]
    /\ pc' = [pc EXCEPT ![p] =
                 IF k < NumStages THEN "get"
                 ELSE IF k = NumStages THEN "cred" ELSE "status"]
    /\ converged' = IF k = NumStages THEN TRUE ELSE converged
    /\ UNCHANGED <<result, failedAt>>

\* r.Get(ctx, req.NamespacedName, &worker) and the set-up of the loop.
Invoke(p) ==
    /\ pc[p] = "idle"
    /\ prev' = [ran |-> passes > 0, failedAt |-> failedAt[p],
                startEmpty |-> snap[p].store = {}]
    /\ log' = [log EXCEPT ![p] = <<>>]
    /\ snap' = [snap EXCEPT ![p] = Snapshot]
    /\ cred' = [cred EXCEPT ![p] = <<>>]
    /\ \/ IF worker = NoWorker
          THEN /\ result' = [result EXCEPT ![p] = IgnoreNotFound(ApiErr("NotFound"))]
               /\ failedAt' = [failedAt EXCEPT ![p] =
                                 IF result'[p] = NoErr THEN 0 ELSE -1]
               /\ stage' = [stage EXCEPT ![p] = 0]
               /\ UNCHANGED <<w, stale, pc>>
          ELSE /\ w' = [w EXCEPT ![p] = worker]
               /\ stale' = [stale EXCEPT ![p] = FALSE]
               /\ stage' = [stage EXCEPT ![p] = 1]
               /\ pc' = [pc EXCEPT ![p] = "get"]
               /\ result' = [result EXCEPT ![p] = NoErr]
               /\ failedAt' = [failedAt EXCEPT ![p] = 0]
       \/ /\ result' = [result EXCEPT ![p] = IgnoreNotFound(ApiErr("Unavailable"))]
          /\ failedAt' = [failedAt EXCEPT ![p] = -1]
          /\ stage' = [stage EXCEPT ![p] = 0]
          /\ UNCHANGED <<w, stale, pc>>
    /\ UNCHANGED <<envVars, converged, ext>>
    /\ UNCHANGED buildVars

\* One of the invocations a behaviour counts.
Start(p) ==
    /\ passes < MaxPasses
    /\ passes' = passes + 1
    /\ Invoke(p)

\* The work queue hands the request back after a pass that returned an error;
\* these invocations are not counted.
Requeue(p) ==
    /\ passes >= MaxPasses
    /\ failedAt[p] # 0
    /\ UNCHANGED passes
    /\ Invoke(p)

\* CreateOrUpdate of a management-plane stage, first half: c.Get(ctx, key, obj)
\* and, when the object is there, mutate, the comparison and c.Update.
StageGet(p) ==
    LET k == stage[p]
        template == Template(k, w[p])
        found == Lookup(store, template.kind, template.namespace, template.name)
    IN
    /\ pc[p] = "get"
    /\ \/ /\ Return(p, k, Wrap(StageMsg[k], ApiErr("Unavailable")))
          /\ Logged(p, <<Entry(k, "get", "mgmt")>>)
          /\ UNCHANGED store
       \/ /\ found = {}
          /\ pc' = [pc EXCEPT ![p] = "create"]
          /\ Logged(p, <<Entry(k, "get", "mgmt")>>)
          /\ UNCHANGED <<stage, store, converged, result, failedAt>>
       \/ \E existing \in found :
            LET obj == Mutated(k, w[p], existing) IN
            /\ IF obj = existing       \* equality.Semantic.DeepEqual(existing, obj)
               THEN /\ Logged(p, <<Entry(k, "get", "mgmt")>>)
                    /\ UNCHANGED store
               ELSE /\ Logged(p, <<Entry(k, "get", "mgmt"), Entry(k, "update", "mgmt")>>)
                    /\ store' = (store \ {existing}) \cup {Created(obj)}
            /\ Continue(p, k)
    /\ UNCHANGED <<worker, secrets, remote, applied, w, cred, stale, snap, prev, passes, ext>>
    /\ UNCHANGED buildVars

\* Mutant of StageCreate: a create that finds the object there goes back to Get.
StageCreateRetrying(p) ==
    LET k == stage[p]
        obj == Mutated(k, w[p], Template(k, w[p]))
    IN
    /\ pc[p] = "create"
    /\ Logged(p, <<Entry(k, "create", "mgmt")>>)
    /\ \/ /\ Return(p, k, Wrap(StageMsg[k], ApiErr("Unavailable")))
          /\ UNCHANGED store
       \/ IF Lookup(store, obj.kind, obj.namespace, obj.name) # {}
          THEN /\ pc' = [pc EXCEPT ![p] = "get"]
               /\ UNCHANGED <<store, stage, converged, result, failedAt>>
          ELSE /\ store' = store \cup {Created(obj)}
               /\ Continue(p, k)
    /\ UNCHANGED <<worker, secrets, remote, applied, w, cred, stale, snap, prev, passes, ext>>
    /\ UNCHANGED buildVars

\* CreateOrUpdate, second half, after Get answered not-found: mutate, then
\* c.Create(ctx, obj).
StageCreate(p) ==
    LET k == stage[p]
        obj == Mutated(k, w[p], Template(k, w[p]))
    IN
    /\ pc[p] = "create"
    /\ Logged(p, <<Entry(k, "create", "mgmt")>>)
    /\ \/ /\ Return(p, k, Wrap(StageMsg[k], ApiErr("Unavailable")))
          /\ UNCHANGED store
       \/ IF Lookup(store, obj.kind, obj.namespace, obj.name) # {}
          THEN /\ Return(p, k, Wrap(StageMsg[k], ApiErr("AlreadyExists")))
               /\ UNCHANGED store
          ELSE /\ store' = store \cup {Created(obj)}
               /\ Continue(p, k)
    /\ UNCHANGED <<worker, secrets, remote, applied, w, cred, stale, snap, prev, passes, ext>>
    /\ UNCHANGED buildVars

\* ------------------------------------------------------ reconcileExternal
CredMsg == "failed to get azure manager secret to apply to cluster"
KubeMsg == "failed to get remote kubeconfig to apply to cluster"
KeyMsg == "missing key in secret data"
ClientMsg == "failed to create REST configuration for worker"
NamespaceMsg == "failed to create remote azure manager namespace"
SecretMsg == "failed to create remote azure manager secret"
ApplyMsg == "failed to apply calico config"

\* remote.NewClient(data): whether the payload yields a client.
NewClientErr(data) ==
    IF data = "kubeconfig" THEN NoErr ELSE ApiErr("InvalidKubeconfig")

\* The closure of the remote namespace's CreateOrUpdate: return nil.
MutateRemoteNamespace(obj) == obj

\* The closure of the remote secret's CreateOrUpdate: remoteSecret = want.
MutateRemoteSecret(obj, want) == [remoteSecret |-> want, obj |-> obj]

RemoteObject(kind, namespace, name, data) ==
    [kind |-> kind, namespace |-> namespace, name |-> name, data |-> data,
     uid |-> FALSE]

remoteNamespace == RemoteObject("Namespace", "", <<AzureKey.namespace>>, <<>>)
remoteSecret(data) == RemoteObject("Secret", AzureKey.namespace, AzureKey.name, data)

\* The error a failed remote CreateOrUpdate is turned into by reconcileExternal.
NamespaceErr(err) == Errorf(NamespaceMsg)
SecretErr(err) == Errorf(SecretMsg)

\* r.Get(ctx, azureKey, azureSecret)
ExtGetCred(p) ==
    LET found == LookupSecret(AzureKey.namespace, AzureKey.name) IN
    /\ pc[p] = "cred"
    /\ Logged(p, <<Entry(ExternalStage, "get", "mgmt")>>)
    /\ \/ /\ Return(p, ExternalStage, Wrap(CredMsg, ApiErr("Unavailable")))
          /\ UNCHANGED cred
       \/ IF found = {}
          THEN /\ Return(p, ExternalStage, Wrap(CredMsg, ApiErr("NotFound")))
               /\ UNCHANGED cred
          ELSE /\ \E s \in found : cred' = [cred EXCEPT ![p] = <<s.data>>]
               /\ pc' = [pc EXCEPT ![p] = "kube"]
               /\ UNCHANGED <<stage, converged, result, failedAt>>
    /\ UNCHANGED <<envVars, w, stale, snap, prev, passes, ext>>
    /\ UNCHANGED buildVars

\* r.Get(ctx, kubeconfigKey, kubeconfigSecret), the data key, remote.NewClient
ExtGetKube(p) ==
    LET found == LookupSecret(w[p].namespace, KubeconfigName(w[p].name)) IN
    /\ pc[p] = "kube"
    /\ Logged(p, <<Entry(ExternalStage, "get", "mgmt")>>)
    /\ \/ Return(p, ExternalStage, Wrap(KubeMsg, ApiErr("Unavailable")))
       \/ IF found = {}
          THEN Return(p, ExternalStage, Wrap(KubeMsg, ApiErr("NotFound")))
          ELSE \E s \in found :
                 IF KubeconfigDataName \notin DOMAIN s.data
                 THEN Return(p, ExternalStage, Errorf(KeyMsg))
                 ELSE IF NewClientErr(s.data[KubeconfigDataName]) # NoErr
                 THEN Return(p, ExternalStage,
                             Wrap(ClientMsg, NewClientErr(s.data[KubeconfigDataName])))
                 ELSE /\ pc' = [pc EXCEPT ![p] = "ns_get"]
                      /\ UNCHANGED <<stage, converged, result, failedAt>>
    /\ UNCHANGED <<envVars, w, cred, stale, snap, prev, passes, ext>>
    /\ UNCHANGED buildVars

\* Mutant of RemoteNsGet: the error of the namespace's CreateOrUpdate is dropped.
RemoteNsGetUnchecked(p) ==
    LET found == Lookup(remote, "Namespace", "", <<AzureKey.namespace>>) IN
    /\ pc[p] = "ns_get"
    /\ \/ /\ pc' = [pc EXCEPT ![p] = "sec_get"]
          /\ Logged(p, <<Entry(ExternalStage, "get", "remote")>>)
          /\ UNCHANGED <<remote, stage, converged, result, failedAt>>
       \/ IF found = {}
          THEN /\ pc' = [pc EXCEPT ![p] = "ns_create"]
               /\ Logged(p, <<Entry(ExternalStage, "get", "remote")>>)
               /\ UNCHANGED <<remote, stage, converged, result, failedAt>>
          ELSE \E existing \in found :
                 LET obj == MutateRemoteNamespace(existing) IN
                 /\ IF obj = existing
                    THEN /\ Logged(p, <<Entry(ExternalStage, "get", "remote")>>)
                         /\ UNCHANGED remote
                    ELSE /\ Logged(p, <<Entry(ExternalStage, "get", "remote"),
                                        Entry(ExternalStage, "update", "remote")>>)
                         /\ remote' = (remote \ {existing}) \cup {Created(obj)}
                 /\ pc' = [pc EXCEPT ![p] = "sec_get"]
                 /\ UNCHANGED <<stage, converged, result, failedAt>>
    /\ UNCHANGED <<worker, store, secrets, applied, w, cred, stale, snap, prev, passes, ext>>
    /\ UNCHANGED buildVars

\* CreateOrUpdate(ctx, remoteClient, remoteNamespace, ...): Get, mutate, compare
RemoteNsGet(p) ==
    LET found == Lookup(remote, "Namespace", "", <<AzureKey.namespace>>) IN
    /\ pc[p] = "ns_get"
    /\ \/ /\ Return(p, ExternalStage, NamespaceErr(ApiErr("Unavailable")))
          /\ Logged(p, <<Entry(ExternalStage, "get", "remote")>>)
          /\ UNCHANGED remote
       \/ IF found = {}
          THEN /\ pc' = [pc EXCEPT ![p] = "ns_create"]
               /\ Logged(p, <<Entry(ExternalStage, "get", "remote")>>)
               /\ UNCHANGED <<remote, stage, converged, result, failedAt>>
          ELSE \E existing \in found :
                 LET obj == MutateRemoteNamespace(existing) IN
                 /\ IF obj = existing
                    THEN /\ Logged(p, <<Entry(ExternalStage, "get", "remote")>>)
                         /\ UNCHANGED remote
                    ELSE /\ Logged(p, <<Entry(ExternalStage, "get", "remote"),
                                        Entry(ExternalStage, "update", "remote")>>)
                         /\ remote' = (remote \ {existing}) \cup {Created(obj)}
                 /\ pc' = [pc EXCEPT ![p] = "sec_get"]
                 /\ UNCHANGED <<stage, converged, result, failedAt>>
    /\ UNCHANGED <<worker, store, secrets, applied, w, cred, stale, snap, prev, passes, ext>>
    /\ UNCHANGED buildVars

\* ... and its c.Create after Get answered not-found.
RemoteNsCreate(p) ==
    LET obj == MutateRemoteNamespace(remoteNamespace) IN
    /\ pc[p] = "ns_create"
    /\ Logged(p, <<Entry(ExternalStage, "create", "remote")>>)
    /\ \/ /\ Return(p, ExternalStage, NamespaceErr(ApiErr("Unavailable")))
          /\ UNCHANGED remote
       \/ IF Lookup(remote, obj.kind, obj.namespace, obj.name) # {}
          THEN /\ Return(p, ExternalStage, NamespaceErr(ApiErr("AlreadyExists")))
               /\ UNCHANGED remote
          ELSE /\ remote' = remote \cup {Created(obj)}
               /\ pc' = [pc EXCEPT ![p] = "sec_get"]
               /\ UNCHANGED <<stage, converged, result, failedAt>>
    /\ UNCHANGED <<worker, store, secrets, applied, w, cred, stale, snap, prev, passes, ext>>
    /\ UNCHANGED buildVars

\* CreateOrUpdate(ctx, remoteClient, remoteSecret, ...): Get, mutate, compare
RemoteSecretGet(p) ==
    LET want == remoteSecret(cred[p])      \* want := remoteSecret.DeepCopy()
        found == Lookup(remote, want.kind, want.namespace, want.name)
    IN
    /\ pc[p] = "sec_get"
    /\ \/ /\ Return(p, ExternalStage, SecretErr(ApiErr("Unavailable")))
          /\ Logged(p, <<Entry(ExternalStage, "get", "remote")>>)
          /\ UNCHANGED remote
       \/ IF found = {}
          THEN /\ pc' = [pc EXCEPT ![p] = "sec_create"]
               /\ Logged(p, <<Entry(ExternalStage, "get", "remote")>>)
               /\ UNCHANGED <<remote, stage, converged, result, failedAt>>
          ELSE \E existing \in found :
                 LET obj == MutateRemoteSecret(existing, want).obj IN
                 /\ IF obj = existing
                    THEN /\ Logged(p, <<Entry(ExternalStage, "get", "remote")>>)
                         /\ UNCHANGED remote
                    ELSE /\ Logged(p, <<Entry(ExternalStage, "get", "remote"),
                                        Entry(ExternalStage, "update", "remote")>>)
                         /\ remote' = (remote \ {existing}) \cup {Created(obj)}
                 /\ pc' = [pc EXCEPT ![p] = "apply"]
                 /\ UNCHANGED <<stage, converged, result, failedAt>>
    /\ UNCHANGED <<worker, store, secrets, applied, w, cred, stale, snap, prev, passes, ext>>
    /\ UNCHANGED buildVars

\* ... and its c.Create after Get answered not-found.
RemoteSecretCreate(p) ==
    LET obj == MutateRemoteSecret(remoteSecret(cred[p]), remoteSecret(cred[p])).obj IN
    /\ pc[p] = "sec_create"
    /\ Logged(p, <<Entry(ExternalStage, "create", "remote")>>)
    /\ \/ /\ Return(p, ExternalStage, SecretErr(ApiErr("Unavailable")))
          /\ UNCHANGED remote
       \/ IF Lookup(remote, obj.kind, obj.namespace, obj.name) # {}
          THEN /\ Return(p, ExternalStage, SecretErr(ApiErr("AlreadyExists")))
               /\ UNCHANGED remote
          ELSE /\ remote' = remote \cup {Created(obj)}
               /\ pc' = [pc EXCEPT ![p] = "apply"]
               /\ UNCHANGED <<stage, converged, result, failedAt>>
    /\ UNCHANGED <<worker, store, secrets, applied, w, cred, stale, snap, prev, passes, ext>>
    /\ UNCHANGED buildVars

\* remoteClient.Apply(url)
Apply(p) ==
    /\ pc[p] = "apply"
    /\ Logged(p, <<Entry(ExternalStage, "apply", "remote")>>)
    /\ \/ /\ Return(p, ExternalStage, Wrap(ApplyMsg, ApiErr("Unavailable")))
          /\ UNCHANGED applied
       \/ /\ applied' = applied \cup {CalicoURL}
          /\ Continue(p, ExternalStage)
    /\ UNCHANGED <<worker, store, secrets, remote, w, cred, stale, snap, prev, passes, ext>>
    /\ UNCHANGED buildVars

\* ------------------------------------------------------------ status update
\* metav1.Now(): the clock, read as the number of the pass that reads it.
Now == passes

\* Mutant of ComputeStatus: the capacity is initialised on every pass.
ComputeStatusAlways(wk) ==
    [phase |-> "Running", availableCapacity |-> <<wk.spec.capacity>>,
     lastScheduledTime |-> <<passes>>]

\* Mutant of ComputeStatus: the status is taken as it is when the defer is
\* registered, before Phase = Running.
ComputeStatusPending(wk) == [wk.status EXCEPT !.phase = "Pending"]

\* Reconcile after the loop: Phase = Pending, the capacity initialisation,
\* Phase = Running, on the pass's own copy of the worker.
ComputeStatus(wk) ==
    LET pending == [wk.status EXCEPT !.phase = "Pending"]
        initialised ==
            IF pending.availableCapacity = <<>>
            THEN [pending EXCEPT !.availableCapacity = <<wk.spec.capacity>>,
                                 !.lastScheduledTime = <<Now>>]
            ELSE pending
    IN [initialised EXCEPT !.phase = "Running"]

SetStatus(p) ==
    /\ pc[p] = "status"
    /\ w' = [w EXCEPT ![p].status = ComputeStatus(w[p])]
    /\ pc' = [pc EXCEPT ![p] = "persist"]
    /\ UNCHANGED <<envVars, stage, cred, stale, result, failedAt, log, snap, converged, prev, passes, ext>>
    /\ UNCHANGED buildVars

\* Mutant of DeferredErr: the status error is logged and not returned.
DeferredErrLogged(reterr, err) == reterr

\* The deferred function's assignment: err becomes the pass's error when
\* the pass has none.
DeferredErr(reterr, err) == IF err # NoErr /\ reterr = NoErr THEN err ELSE reterr

\* The deferred r.Status().Update(ctx, &worker); reterr is nil when it runs.
PersistStatus(p) ==
    /\ pc[p] = "persist"
    /\ pc' = [pc EXCEPT ![p] = "idle"]
    /\ Logged(p, <<Entry(StatusStep, "update", "mgmt")>>)
    /\ \/ /\ result' = [result EXCEPT ![p] = DeferredErr(NoErr, ApiErr("Unavailable"))]
          /\ failedAt' = [failedAt EXCEPT ![p] = StatusStep]
          /\ UNCHANGED <<worker, stale>>
       \/ IF worker = NoWorker \/ stale[p]
          THEN /\ result' = [result EXCEPT ![p] =
                               DeferredErr(NoErr, ApiErr(IF worker = NoWorker
                                                         THEN "NotFound"
                                                         ELSE "Conflict"))]
               /\ failedAt' = [failedAt EXCEPT ![p] = StatusStep]
               /\ UNCHANGED <<worker, stale>>
          ELSE /\ worker' = [worker EXCEPT !.status = w[p].status]
               /\ stale' = [q \in Passes |->
                              IF q # p /\ worker'.status # worker.status
                              THEN TRUE ELSE stale[q]]
               /\ UNCHANGED <<result, failedAt>>
    /\ UNCHANGED <<store, secrets, remote, applied, stage, w, cred, snap, converged, prev, passes, ext>>
    /\ UNCHANGED buildVars

\* ------------------------------------------------------------- other actors
\* A managed field as another client may leave it.
Edited(o) ==
    CASE o.kind = "Cluster" -> [o EXCEPT !.spec.pods = "10.0.0.0/8"]
      [] o.kind = "KubeadmConfigTemplate" -> [o EXCEPT !.spec.files[9] = <<"vmType", "vmss">>]
      [] o.kind = "KubeadmControlPlane" -> [o EXCEPT !.spec.replicas = 5]
      [] o.kind = "AzureMachineTemplate" -> [o EXCEPT !.spec.vmSize = "Standard_D2s_v3"]
      [] o.kind = "MachineDeployment" -> [o EXCEPT !.spec.replicas = 7]
      [] OTHER -> [o EXCEPT !.spec.resourceGroup = <<"elsewhere">>]

Changed ==
    /\ ext < MaxExternal
    /\ ext' = ext + 1
    /\ converged' = FALSE

\* Another client edits a managed field of one of the six objects.
ExternalEdit ==
    /\ Changed
    /\ \E o \in store :
         /\ Edited(o) # o
         /\ store' = (store \ {o}) \cup {Edited(o)}
    /\ UNCHANGED <<worker, secrets, remote, applied, pc, stage, w, cred, stale,
                   result, failedAt, log, snap, prev, passes>>
    /\ UNCHANGED buildVars

\* The user changes the worker's declared capacity.
ChangeCapacity ==
    /\ Changed
    /\ \E c \in Capacities \ {worker.spec.capacity} :
         worker' = [worker EXCEPT !.spec.capacity = c]
    /\ stale' = [p \in Passes |-> TRUE]
    /\ UNCHANGED <<store, secrets, remote, applied, pc, stage, w, cred, result,
                   failedAt, log, snap, prev, passes>>
    /\ UNCHANGED buildVars

\* The operator's credentials are created, or replaced by new ones.
WriteCredentials ==
    LET found == LookupSecret(AzureKey.namespace, AzureKey.name) IN
    /\ Changed
    /\ \A s \in found : s.data.clientSecret = "d1"
    /\ secrets' = (secrets \ found)
                    \cup {CredentialSecret(IF found = {} THEN "d1" ELSE "d2")}
    /\ UNCHANGED <<worker, store, remote, applied, pc, stage, w, cred, stale,
                   result, failedAt, log, snap, prev, passes>>
    /\ UNCHANGED buildVars

\* The cluster-api controllers publish "<worker-name>-kubeconfig".
PublishKubeconfig ==
    /\ Changed
    /\ LookupSecret(worker.namespace, KubeconfigName(worker.name)) = {}
    /\ \E d \in KubeconfigPayloads :
         secrets' = secrets \cup {KubeconfigSecret(d)}
    /\ UNCHANGED <<worker, store, remote, applied, pc, stage, w, cred, stale,
                   result, failedAt, log, snap, prev, passes>>
    /\ UNCHANGED buildVars

\* -------------------------------------------------------------------- Spec
Pass(p) ==
    \/ Start(p)
    \/ StageGet(p)
    \/ StageCreate(p)
    \/ ExtGetCred(p)
    \/ ExtGetKube(p)
    \/ RemoteNsGet(p)
    \/ RemoteNsCreate(p)
    \/ RemoteSecretGet(p)
    \/ RemoteSecretCreate(p)
    \/ Apply(p)
    \/ SetStatus(p)
    \/ PersistStatus(p)

Environment ==
    \/ ExternalEdit
    \/ ChangeCapacity
    \/ WriteCredentials
    \/ PublishKubeconfig

Next == (\E p \in Sequential : Pass(p)) \/ Environment

Spec == Init /\ [][Next]_vars

\* ------------------------------------------------------------------ claims
\* The objects of the kind of stage k that carry the worker's key.
Live(k) == Lookup(store, Stages[k], worker.namespace, worker.name)

\* Pass p started with no management-plane object in the store.
StartEmpty(p) == snap[p].store = {}

\* No other actor changed anything since pass p started.
Quiet(p) == snap[p].ext = ext

\* Stage k returned nil in the current pass of p.
StageOk(p, k) == stage[p] > k

\* The current pass of p ran to its end and returned nil.
Succeeded(p) == pc[p] = "idle" /\ stage[p] = StatusStep /\ failedAt[p] = 0

IsMgmtCreate(e) == e.op = "create" /\ e.api = "mgmt"
IsMgmtWrite(e) == e.op \in {"create", "update"} /\ e.api = "mgmt" /\ e.stage <= NumStages

\* The stages of the store operations sel, in order.
StagesIn(sel) == [i \in 1..Len(sel) |-> sel[i].stage]
CreateStages(l) == StagesIn(SelectSeq(l, IsMgmtCreate))
WriteStages(l) == StagesIn(SelectSeq(l, IsMgmtWrite))

\* C1: from a store with none of the six objects, once the six stages of a
\* pass have succeeded, the AzureCluster in the store carries a controller
\* reference to the worker.
C1_InfraClusterOwned ==
    \A p \in Passes :
        (StartEmpty(p) /\ StageOk(p, NumStages))
            => /\ Live(NumStages) # {}
               /\ \A o \in Live(NumStages) : o.owner = <<worker.name>>

\* C2: an object that a pass found with a managed field differing from the
\* builder's desired object has, once its stage succeeded in that pass and
\* nobody else wrote in between, the desired object's managed fields.
C2_ExternalEditUndone ==
    \A p \in Passes : \A k \in 1..NumStages :
        LET want == Template(k, w[p])
            before == Lookup(snap[p].store, want.kind, want.namespace, want.name)
        IN (/\ StageOk(p, k)
            /\ Quiet(p)
            /\ \E o \in before : o.spec # want.spec)
               => \A o \in Live(k) : o.spec = want.spec

\* C3: whenever reconcileExternal returned nil, the remote cluster holds a
\* secret named like the operator credential secret whose data is the data
\* of the credential secret read in that pass.
C3_RemoteSecretProjected ==
    \A p \in Passes :
        StageOk(p, ExternalStage)
            => \E o \in Lookup(remote, "Secret", AzureKey.namespace, AzureKey.name) :
                   o.data = cred[p]

\* C4: from a store with none of the six objects, once the six stages of a
\* pass have succeeded, the worker's namespace holds exactly one object of
\* each of the six kinds, named like the worker, and they were created in
\* the order of the stages.
C4_SixObjectsInStageOrder ==
    \A p \in Passes :
        (StartEmpty(p) /\ StageOk(p, NumStages))
            => /\ \A k \in 1..NumStages :
                    /\ Cardinality({o \in store : o.kind = Stages[k]
                                        /\ o.namespace = w[p].namespace}) = 1
                    /\ Cardinality(Lookup(store, Stages[k], w[p].namespace,
                                          w[p].name)) = 1
               /\ CreateStages(log[p]) = [k \in 1..NumStages |-> k]

C4_Witness == StartEmpty(1) /\ StageOk(1, NumStages) /\ Cardinality(store) = NumStages

\* C5: when stage k of a pass returned an error, the pass has returned an
\* error, has made no store operation of a later stage, and every object it
\* wrote in an earlier stage is still in the store.
C5_FirstErrorAborts ==
    \A p \in Passes :
        failedAt[p] \in 1..ExternalStage
            => /\ pc[p] = "idle"
               /\ result[p] # NoErr
               /\ \A i \in 1..Len(log[p]) : log[p][i].stage <= failedAt[p]
               /\ \A i \in 1..Len(log[p]) :
                    (IsMgmtWrite(log[p][i]) /\ log[p][i].stage < failedAt[p])
                        => Live(log[p][i].stage) # {}
               /\ \A o \in snap[p].store :
                    Lookup(store, o.kind, o.namespace, o.name) # {}

C5_Witness ==
    /\ failedAt[1] = 4
    /\ CreateStages(log[1]) = <<1, 2, 3, 4>>
    /\ Cardinality(store) = 3

\* C6: the worker's status changes only in the status write of a pass whose
\* seven stages all returned nil; a pass that failed in a stage leaves the
\* status as it found it, so it does not set the phase to Running.
C6_StatusOnlyAfterAllStages ==
    /\ [](\A p \in Sequential :
            failedAt[p] \in 1..ExternalStage => worker.status = snap[p].status)
    /\ [][worker'.status # worker.status
            => \E p \in Passes :
                 /\ pc[p] = "persist" /\ pc'[p] = "idle"
                 /\ failedAt[p] = 0
                 /\ \A k \in 1..ExternalStage :
                      \E i \in 1..Len(log[p]) : log[p][i].stage = k]_vars

C6_Witness ==
    /\ failedAt[1] = ExternalStage
    /\ worker.status.phase = "Running"
    /\ passes = 2

\* C7: a successful pass that found no availableCapacity leaves
\* availableCapacity at the declared capacity and lastScheduledTime set; once
\* availableCapacity is set, no step changes it or lastScheduledTime, whatever
\* the declared capacity has become.
C7_CapacityInitialisedOnce ==
    /\ [](\A p \in Sequential :
            (Succeeded(p) /\ snap[p].status.availableCapacity = <<>>)
                => /\ worker.status.availableCapacity = <<w[p].spec.capacity>>
                   /\ worker.status.lastScheduledTime # <<>>)
    /\ [][worker.status.availableCapacity # <<>>
            => /\ worker'.status.availableCapacity = worker.status.availableCapacity
               /\ worker'.status.lastScheduledTime = worker.status.lastScheduledTime]_vars

C7_Witness ==
    /\ Succeeded(1)
    /\ snap[1].status.availableCapacity = <<10>>
    /\ w[1].spec.capacity = 20
    /\ worker.status.availableCapacity = <<10>>

\* C8: while "<worker-name>-kubeconfig" does not exist, a pass that entered
\* reconcileExternal gets no further than the two reads of secrets; when it
\* has returned, it returned an error of stage 7 whose cause is still
\* not-found (unless the store failed the read itself), it made no operation
\* on the remote cluster and no write, and the six objects are in the store.
C8_KubeconfigNotFound ==
    \A p \in Passes :
        (/\ LookupSecret(w[p].namespace, KubeconfigName(w[p].name)) = {}
         /\ stage[p] = ExternalStage)
            => /\ pc[p] \in {"cred", "kube", "idle"}
               /\ pc[p] = "idle"
                    => /\ failedAt[p] = ExternalStage
                       /\ result[p].cause # "Unavailable" => IsNotFound(result[p])
                       /\ \A i \in 1..Len(log[p]) :
                            log[p][i].stage = ExternalStage
                                => log[p][i].op = "get" /\ log[p][i].api = "mgmt"
                       /\ \A k \in 1..NumStages : Live(k) # {}

C8_Witness ==
    /\ LookupSecret(w[1].namespace, KubeconfigName(w[1].name)) = {}
    /\ LookupSecret(AzureKey.namespace, AzureKey.name) # {}
    /\ stage[1] = ExternalStage /\ pc[1] = "idle"
    /\ IsNotFound(result[1])
    /\ Len(result[1].ctx) = 2

\* C9: a pass that follows a pass which ran its six stages, with no change
\* by anybody else since, makes no create and no update in its six stages and
\* leaves the store as it found it.
C9_SecondPassNoWrites ==
    \A p \in Passes :
        (snap[p].converged /\ Quiet(p) /\ StageOk(p, NumStages))
            => /\ WriteStages(log[p]) = <<>>
               /\ store = snap[p].store

C9_Witness ==
    /\ snap[1].converged /\ Quiet(1) /\ StageOk(1, NumStages)
    /\ Len(log[1]) >= NumStages

\* C10: a pass that started with no resources and failed in stage 4 leaves
\* the objects of stages 1-3 and none of stages 4-6, and the phase not
\* Running; the pass after it, when it succeeds, has written nothing in
\* stages 1-3, has created the objects of stages 4-6, and is the one that
\* moved the phase to Running.
C10_ResumeAfterStage4 ==
    \A p \in Sequential :
        /\ (StartEmpty(p) /\ failedAt[p] = 4)
              => /\ \A k \in 1..3 : Live(k) # {}
                 /\ \A k \in 4..NumStages : Live(k) = {}
                 /\ worker.status.phase # "Running"
        /\ (prev.ran /\ prev.startEmpty /\ prev.failedAt = 4 /\ Succeeded(p))
              => /\ WriteStages(log[p]) = <<4, 5, 6>>
                 /\ CreateStages(log[p]) = <<4, 5, 6>>
                 /\ snap[p].status.phase # "Running"
                 /\ worker.status.phase = "Running"

C10_Witness ==
    /\ prev.ran /\ prev.startEmpty /\ prev.failedAt = 4
    /\ Succeeded(1)
    /\ worker.status.phase = "Running"

\* ------------------------------------------------- the template builders
\* The workers and settings the builders are applied to.
BuildNames == {<<"alpha">>, <<"beta">>}
BuildLocations == {"westus2", "eastus"}
BuildReplicas == {1, 3}
BuildVersions == {"v1.17.4", "v1.18.2"}
BuildSettings == {AzureSettings, [AzureSettings EXCEPT !.clientSecret = "rotated"]}

BuildWorker(name, location, replicas, version) ==
    [name |-> name, namespace |-> WorkerNamespace,
     spec |-> [location |-> location, replicas |-> replicas,
               capacity |-> 10, version |-> version],
     status |-> StatusNil]

\* No pass has been started.
NoPassYet ==
    /\ pc = [p \in Passes |-> "idle"]
    /\ stage = [p \in Passes |-> 0]
    /\ w = [p \in Passes |-> NoWorker]
    /\ cred = [p \in Passes |-> <<>>]
    /\ stale = [p \in Passes |-> FALSE]
    /\ result = [p \in Passes |-> NoErr]
    /\ failedAt = [p \in Passes |-> 0]
    /\ log = [p \in Passes |-> <<>>]
    /\ snap = [p \in Passes |->
                [store |-> {}, status |-> StatusNil, converged |-> FALSE, ext |-> 0]]
    /\ converged = FALSE
    /\ prev = [ran |-> FALSE, failedAt |-> 0, startEmpty |-> FALSE]
    /\ passes = 0
    /\ ext = 0

InitBuild ==
    /\ \E name \in BuildNames, location \in BuildLocations,
          replicas \in BuildReplicas, version \in BuildVersions,
          settings \in BuildSettings :
         input = [worker |-> BuildWorker(name, location, replicas, version),
                  settings |-> settings]
    /\ built = {}
    /\ worker = input.worker
    /\ store = {}
    /\ secrets = {}
    /\ remote = {}
    /\ applied = {}
    /\ NoPassYet

\* Stage k calls its builder.
Build(k) ==
    /\ built' = built \cup {Desired(k, input.worker, input.settings)}
    /\ UNCHANGED <<worker, store, secrets, remote, applied, pc, stage, w, cred,
                   stale, result, failedAt, log, snap, converged, prev, passes,
                   ext, input>>

NextBuild == \E k \in 1..NumStages : Build(k)

SpecBuild == InitBuild /\ [][NextBuild]_vars

BuiltOf(kind) == {o \in built : o.kind = kind}

\* ------------------------------------------------------ concurrent passes
\* The worker as Init has it.
NewWorker ==
    [name |-> WorkerName, namespace |-> WorkerNamespace,
     spec |-> [location |-> "westus2", replicas |-> 3,
               capacity |-> 10, version |-> "v1.18.2"],
     status |-> StatusNil]

\* The six objects as a pass with no fault leaves them.
SixObjects(wk) == {Created(Template(k, wk)) : k \in 1..NumStages}

\* Two Reconcile calls for the same worker may be in flight; the store holds
\* any part of the six objects, both secrets are there.
InitConc ==
    /\ worker = NewWorker
    /\ store \in SUBSET SixObjects(NewWorker)
    /\ secrets = {CredentialSecret("d1"), KubeconfigSecret([value |-> "kubeconfig"])}
    /\ remote = {}
    /\ applied = {}
    /\ input = [worker |-> NewWorker, settings |-> AzureSettings]
    /\ built = {}
    /\ NoPassYet

NextConc == \E p \in Passes : Pass(p)

SpecConc == InitConc /\ [][NextConc]_vars

RemoteHas(kind) == \E o \in remote : o.kind = kind

\* ------------------------------------------------------------ re-invocation
\* A pass is re-invoked for as long as it returns an error; the secrets are
\* written by their owners.
NextLive ==
    \/ \E p \in Sequential : Pass(p) \/ Requeue(p)
    \/ WriteCredentials
    \/ PublishKubeconfig

\* A running pass makes its next call, and the queue does hand a failed
\* request back.
FairLive == \A p \in Sequential : WF_vars(Pass(p) \/ Requeue(p))

SpecLive == Init /\ [][NextLive]_vars /\ FairLive

\* An error that comes from a failing API server and not from what the
\* stores hold.
Faulted(e) ==
    \/ e.cause = "Unavailable"
    \/ /\ Len(e.ctx) = 2
       /\ e.ctx[2] \in {NamespaceMsg, SecretMsg}

\* The step ends a pass with such an error.
FaultStep(p) ==
    /\ Faulted(result'[p])
    /\ pc'[p] = "idle"
    /\ pc[p] # "idle" \/ (failedAt'[p] = -1 /\ secrets' = secrets)

\* Both secrets are there and a remote client can be built from the kubeconfig.
SecretsReady ==
    /\ LookupSecret(AzureKey.namespace, AzureKey.name) # {}
    /\ \E s \in LookupSecret(worker.namespace, KubeconfigName(worker.name)) :
         /\ KubeconfigDataName \in DOMAIN s.data
         /\ NewClientErr(s.data[KubeconfigDataName]) = NoErr

Bootstrapped ==
    /\ worker.status.phase = "Running"
    /\ \A k \in 1..NumStages : Live(k) # {}
    /\ RemoteHas("Namespace")
    /\ RemoteHas("Secret")
    /\ applied # {}
    /\ \E p \in Sequential : Succeeded(p)

\* ------------------------------------------------------ the worker deleted
\* The user deletes the worker. None of the six objects has an owner
\* reference, so the store keeps them.
DeleteWorker ==
    /\ Changed
    /\ worker # NoWorker
    /\ worker' = NoWorker
    /\ UNCHANGED <<store, secrets, remote, applied, pc, stage, w, cred, stale,
                   result, failedAt, log, snap, prev, passes>>
    /\ UNCHANGED buildVars

\* A request may name a worker that is not there, or that goes away.
InitGone ==
    /\ worker \in {NewWorker, NoWorker}
    /\ store = {}
    /\ secrets = {CredentialSecret("d1"), KubeconfigSecret([value |-> "kubeconfig"])}
    /\ remote = {}
    /\ applied = {}
    /\ input = [worker |-> NewWorker, settings |-> AzureSettings]
    /\ built = {}
    /\ NoPassYet

NextGone == (\E p \in Sequential : Pass(p)) \/ DeleteWorker

SpecGone == InitGone /\ [][NextGone]_vars

\* C11: every object in the management-plane store is of one of the six
\* kinds and carries the worker's namespace and name, so there is at most one
\* of each kind; and no step removes an object from the store.
C11_NameStable ==
    /\ [](/\ \A o \in store :
               /\ \E k \in 1..NumStages : o.kind = Stages[k]
               /\ o.namespace = WorkerNamespace
               /\ o.name = WorkerName
          /\ \A k \in 1..NumStages :
               Cardinality({o \in store : o.kind = Stages[k]}) <= 1)
    /\ [][\A o \in store : Lookup(store', o.kind, o.namespace, o.name) # {}]_vars

C11_Witness ==
    /\ passes = 2
    /\ StageOk(1, NumStages)
    /\ Cardinality(store) = NumStages
    /\ WriteStages(log[1]) = <<>>

\* C12: built from the same worker name, location and settings, the
\* KubeadmConfigTemplate and the KubeadmControlPlane embed the same
\* cloud-provider config payload, and it is the one serialised from those inputs.
C12_SamePayload ==
    \A a \in BuiltOf("KubeadmConfigTemplate"), b \in BuiltOf("KubeadmControlPlane") :
        /\ a.spec.files = b.spec.files
        /\ a.spec.files = getCloudProviderConfig(input.worker.name,
                                                 input.worker.spec.location,
                                                 input.settings)

C12_Witness ==
    /\ BuiltOf("KubeadmConfigTemplate") # {}
    /\ BuiltOf("KubeadmControlPlane") # {}
    /\ input.settings # AzureSettings
    /\ input.worker.name # WorkerName

\* C19 as stated: the desired KubeadmControlPlane has the worker's replicas
\* and version.
C19_ControlPlaneFollowsWorker ==
    \A o \in BuiltOf("KubeadmControlPlane") :
        /\ o.spec.replicas = input.worker.spec.replicas
        /\ o.spec.version = input.worker.spec.version

\* C19 amended: the worker's replicas and version are those of the desired
\* MachineDeployment; the desired KubeadmControlPlane has one replica and
\* version v1.17.4 for every worker.
C19_NodePoolFollowsWorker ==
    /\ \A o \in BuiltOf("MachineDeployment") :
         /\ o.spec.replicas = input.worker.spec.replicas
         /\ o.spec.version = input.worker.spec.version
    /\ \A o \in BuiltOf("KubeadmControlPlane") :
         /\ o.spec.replicas = 1
         /\ o.spec.version = "v1.17.4"

C19_Witness ==
    /\ BuiltOf("MachineDeployment") # {}
    /\ BuiltOf("KubeadmControlPlane") # {}
    /\ input.worker.spec.replicas = 3
    /\ input.worker.spec.version = "v1.18.2"

\* C13 as stated: a pass that fetched the worker and ended with a stage's
\* error has made the status write.
C13_StatusWrittenOnStageError ==
    \A p \in Sequential :
        (pc[p] = "idle" /\ failedAt[p] \in 1..ExternalStage)
            => \E i \in 1..Len(log[p]) : log[p][i].stage = StatusStep

\* C14: a pass whose seven stages succeeded and whose status write failed
\* returns the error of that write, unwrapped, and the stored status is the
\* one the pass found.
C14_StatusErrorReturned ==
    \A p \in Sequential :
        (pc[p] = "idle" /\ failedAt[p] = StatusStep)
            => /\ stage[p] = StatusStep
               /\ result[p] \in {ApiErr("Unavailable"), ApiErr("Conflict")}
               /\ worker.status = snap[p].status

C14_Witness ==
    /\ pc[1] = "idle"
    /\ failedAt[1] = StatusStep
    /\ result[1] = ApiErr("Unavailable")
    /\ snap[1].status = StatusNil
    /\ w[1].status.phase = "Running"

\* The positions of a pass inside reconcileExternal, in program order, and
\* the position after it.
ExternalSteps ==
    <<"cred", "kube", "ns_get", "ns_create", "sec_get", "sec_create", "apply", "status">>

Rank(c) == CHOOSE i \in 1..Len(ExternalSteps) : ExternalSteps[i] = c

\* C15: inside the remote bootstrap phase a pass only moves forward through
\* credential read, kubeconfig read (with key and client), namespace, secret,
\* manifest, or ends with the phase's error having written nothing in that
\* step; the remote namespace is written only at the namespace step, the
\* remote secret only at the secret step with the namespace present, and the
\* manifest is applied only at the apply step with the secret present.
C15_RemoteStepsInOrder ==
    /\ []((RemoteHas("Secret") => RemoteHas("Namespace"))
          /\ (applied # {} => RemoteHas("Secret")))
    /\ [][/\ \A p \in Passes :
               (stage[p] = ExternalStage /\ pc[p] # "idle" /\ pc'[p] # pc[p])
                  => \/ /\ pc'[p] = "idle"
                        /\ failedAt'[p] = ExternalStage
                        /\ remote' = remote
                        /\ applied' = applied
                     \/ /\ pc'[p] \in {ExternalSteps[i] : i \in 1..Len(ExternalSteps)}
                        /\ Rank(pc'[p]) > Rank(pc[p])
                        /\ failedAt'[p] = 0
          /\ \A o \in remote' \ remote :
               \E p \in Passes :
                  \/ o.kind = "Namespace" /\ pc[p] = "ns_create"
                  \/ /\ o.kind = "Secret"
                     /\ pc[p] \in {"sec_get", "sec_create"}
                     /\ RemoteHas("Namespace")
                     /\ Len(SelectSeq(log[p], LAMBDA e : e.stage = ExternalStage
                                                        /\ e.api = "mgmt")) = 2
          /\ applied' # applied
               => \E p \in Passes : pc[p] = "apply" /\ RemoteHas("Secret")]_vars

C15_Witness ==
    /\ pc[1] = "idle"
    /\ failedAt[1] = ExternalStage
    /\ result[1] = Wrap(ReconcileMsg, SecretErr(ApiErr("Unavailable")))
    /\ RemoteHas("Namespace")
    /\ ~RemoteHas("Secret")
    /\ applied = {}

\* The kubeconfig secret of pass p's worker exists and has no entry under
\* the well-known key.
KeyMissing(p) ==
    LET found == LookupSecret(w[p].namespace, KubeconfigName(w[p].name)) IN
    /\ found # {}
    /\ \A s \in found : KubeconfigDataName \notin DOMAIN s.data

\* The pass made no call to the remote cluster and no status write.
NoRemoteNoStatus(p) ==
    \A i \in 1..Len(log[p]) :
        log[p][i].api # "remote" /\ log[p][i].stage # StatusStep

\* C16 as stated: a pass that ended in the remote bootstrap phase while the
\* kubeconfig secret lacked the data key ended with an error that is not
\* not-found, with no remote call and no status write.
C16_MissingKeyNotNotFound ==
    \A p \in Sequential :
        (pc[p] = "idle" /\ stage[p] = ExternalStage /\ Quiet(p) /\ KeyMissing(p))
            => /\ failedAt[p] = ExternalStage
               /\ ~IsNotFound(result[p])
               /\ NoRemoteNoStatus(p)

\* C16 amended: the same when the operator credential secret exists; the
\* error is then "missing key in secret data" with no cause, unless the store
\* failed one of the two reads; remote and applied are as the pass found them.
C16_MissingKeyAfterCredentials ==
    \A p \in Sequential :
        (/\ pc[p] = "idle" /\ stage[p] = ExternalStage /\ Quiet(p) /\ KeyMissing(p)
         /\ LookupSecret(AzureKey.namespace, AzureKey.name) # {})
            => /\ failedAt[p] = ExternalStage
               /\ ~IsNotFound(result[p])
               /\ result[p].cause # "Unavailable"
                    => result[p] = Wrap(ReconcileMsg, Errorf(KeyMsg))
               /\ NoRemoteNoStatus(p)
               /\ worker.status = snap[p].status

C16_Witness ==
    /\ pc[1] = "idle" /\ stage[1] = ExternalStage /\ Quiet(1) /\ KeyMissing(1)
    /\ LookupSecret(AzureKey.namespace, AzureKey.name) # {}
    /\ result[1] = Wrap(ReconcileMsg, Errorf(KeyMsg))
    /\ Len(log[1]) = 2 * NumStages + 2

\* C17 as stated: a pass that ended with the error of a failed store call in
\* one of its seven stages returned an error that names the stage and still
\* has the store's error as its cause.
C17_CauseCarried ==
    \A p \in Sequential :
        (/\ pc[p] = "idle" /\ failedAt[p] \in 1..ExternalStage
         /\ result[p].ctx[2] # KeyMsg)
            => /\ result[p].ctx[1] = ReconcileMsg
               /\ failedAt[p] <= NumStages => result[p].ctx[2] = StageMsg[failedAt[p]]
               /\ result[p].cause \notin {"nil", "none"}

C20_EventuallyRunning ==
    ((<>[]SecretsReady) /\ <>[][\A p \in Sequential : ~FaultStep(p)]_vars)
        => <>Bootstrapped

C20_Witness ==
    /\ Bootstrapped
    /\ passes = MaxPasses
    /\ prev.ran /\ prev.failedAt = ExternalStage
    /\ ext > 0

\* C21: the stored phase of the worker is never Pending or Terminating, and
\* every step that changes the stored status is the status write of a pass
\* and stores phase Running.
C21_OnlyRunningPersisted ==
    /\ [](worker.status.phase \in {"", "Running"})
    /\ [][worker'.status # worker.status
            => /\ worker'.status.phase = "Running"
               /\ \E p \in Passes :
                    /\ pc[p] = "persist"
                    /\ worker'.status = w[p].status
                    /\ log'[p] = log[p] \o <<Entry(StatusStep, "update", "mgmt")>>]_vars

C21_Witness ==
    /\ worker.status.phase = "Running"
    /\ snap[1].status.phase = ""
    /\ Succeeded(1)
    /\ log[1][Len(log[1])] = Entry(StatusStep, "update", "mgmt")

\* C22: a pass that starts while the worker does not exist ends in that
\* step with no error, no stage entered, no call logged, and the stores, the
\* remote cluster and the worker untouched, unless the fetch itself failed;
\* a fetch that failed otherwise ends the pass in that step with the fetch's
\* error, unwrapped, and equally nothing run or written.
C22_AbsentWorkerNoOp ==
    /\ [][\A p \in Sequential :
            (pc[p] = "idle" /\ passes' = passes + 1)
               => /\ worker = NoWorker
                    => /\ pc'[p] = "idle"
                       /\ result'[p] \in {NoErr, ApiErr("Unavailable")}
                       /\ result'[p] = NoErr <=> failedAt'[p] = 0
                  /\ pc'[p] = "idle"
                    => /\ stage'[p] = 0
                       /\ log'[p] = <<>>
                       /\ envVars' = envVars
                       /\ failedAt'[p] = -1 => result'[p] = ApiErr("Unavailable")]_vars
    /\ [](\A p \in Sequential :
            (pc[p] = "idle" /\ stage[p] = 0)
               => /\ log[p] = <<>>
                  /\ Quiet(p) => snap[p].store = store /\ snap[p].status = worker.status)

C22_Witness ==
    /\ worker = NoWorker
    /\ passes = MaxPasses
    /\ pc[1] = "idle" /\ stage[1] = 0
    /\ result[1] = NoErr /\ failedAt[1] = 0
    /\ prev.ran /\ prev.failedAt = 0
    /\ store # {}

====
